---- MODULE Spec2Model ----
(***************************************************************************)
(* Model of basics/basics.py: the NamedTupleReader CSV reader and the      *)
(* temporary-workspace helpers (temp_workspace, tempdir).                   *)
(*                                                                         *)
(* A text string is a sequence of one-character strings, so that the       *)
(* identifier rules of collections.namedtuple and the line breaks inside   *)
(* quoted CSV fields can be computed from the characters.                  *)
(***************************************************************************)
EXTENDS Integers, Sequences, FiniteSets, TLC

VARIABLES
    source,          \* rows the csv.reader will parse from the line source, in order
    pos,             \* number of rows the csv.reader has produced so far
    reader_line_num, \* self.reader.line_num: raw lines read by the csv.reader
    argnames,        \* the fieldnames constructor argument (None or a list)
    restval,         \* self.restval
    rename,          \* self.rename
    phase,           \* "new" before __init__, "ready" once built, "failed" if __init__ raised
    fields,          \* self.RowTuple._fields
    fields0,         \* RowTuple._fields as they were when __init__ returned
    line_num,        \* self.line_num
    row,             \* the raw row the last __next__ call took from the csv.reader
    result,          \* outcome of the last __init__/__next__ call
    out,             \* the records returned by __next__ so far, in order
    cwd,             \* the process's current working directory
    dirs,            \* the directories that exist
    files,           \* the files that exist
    stack,           \* active temp_workspace scopes and wrapper calls, innermost last
    deco,            \* for each decorated name, how the tempdir decorator was used
    made,            \* number of directories tempfile has created so far
    calls,           \* number of scopes/calls entered so far
    done             \* finished scopes/calls, in order of completion

readerVars == <<source, pos, reader_line_num, argnames, restval, rename, phase,
                fields, fields0, line_num, row, result, out>>
tempVars   == <<cwd, dirs, files, stack, deco, made, calls, done>>
vars       == <<source, pos, reader_line_num, argnames, restval, rename, phase,
                fields, fields0, line_num, row, result, out,
                cwd, dirs, files, stack, deco, made, calls, done>>

(***************************************************************************)
(* Bounds                                                                  *)
(***************************************************************************)
MaxFields == 3      \* most raw fields in one input row
MaxRows   == 3      \* most rows in the line source
MaxArity  == 3      \* longest explicit fieldnames list

(***************************************************************************)
(* Text                                                                    *)
(***************************************************************************)
DigitChars == <<"0", "1", "2", "3", "4", "5", "6", "7", "8", "9">>
Digits     == {DigitChars[i] : i \in 1..10}
Letters    == {"a", "b", "c", "d", "f", "i", "l", "o", "x"}

RECURSIVE Decimal(_)
Decimal(n) ==
    IF n < 10 THEN <<DigitChars[n + 1]>>
    ELSE Decimal(n \div 10) \o <<DigitChars[(n % 10) + 1]>>

\* str.isidentifier() on the characters used here
IsIdentifier(s) ==
    /\ Len(s) > 0
    /\ s[1] \in Letters \cup {"_"}
    /\ \A i \in 1..Len(s) : s[i] \in Letters \cup Digits \cup {"_"}

\* keyword.iskeyword(); "if" is the keyword spellable with Letters
IsKeyword(s) == s \in {<<"i", "f">>}

StartsWithUnderscore(s) == Len(s) > 0 /\ s[1] = "_"

\* number of raw lines one parsed row spans: a line break inside a quoted
\* field makes the csv.reader read one more line
RECURSIVE Breaks(_)
Breaks(s) ==
    IF s = <<>> THEN 0
    ELSE (IF Head(s) = "\n" THEN 1 ELSE 0) + Breaks(Tail(s))

RECURSIVE RowBreaks(_)
RowBreaks(r) == IF r = <<>> THEN 0 ELSE Breaks(Head(r)) + RowBreaks(Tail(r))

PhysLines(r) == 1 + RowBreaks(r)

(***************************************************************************)
(* Python values held in a record slot                                     *)
(***************************************************************************)
Str(s)   == [t |-> "str",  v |-> <<s>>]
List(xs) == [t |-> "list", v |-> xs]
NoneVal  == [t |-> "none", v |-> <<>>]

Wrap(r) == [i \in 1..Len(r) |-> Str(r[i])]
Repeat(x, n) == [i \in 1..n |-> x]

\* Python slice bounds: negative indices count from the end, then clamp
PyBound(n, i) ==
    IF i < 0 THEN (IF n + i < 0 THEN 0 ELSE n + i)
    ELSE (IF i > n THEN n ELSE i)
SliceTo(s, hi)   == SubSeq(s, 1, PyBound(Len(s), hi))
SliceFrom(s, lo) == SubSeq(s, PyBound(Len(s), lo) + 1, Len(s))

(***************************************************************************)
(* collections.namedtuple('RowTuple', fieldnames, rename=...)              *)
(***************************************************************************)
Placeholder(index) == <<"_">> \o Decimal(index)

SeenBefore(names, i) == \E j \in 1..(i - 1) : names[j] = names[i]

Renamed(names) ==
    [i \in 1..Len(names) |->
        IF \/ ~IsIdentifier(names[i])
           \/ IsKeyword(names[i])
           \/ StartsWithUnderscore(names[i])
           \/ SeenBefore(names, i)
        THEN Placeholder(i - 1)
        ELSE names[i]]

Rejected(names, ren) ==
    \/ \E i \in 1..Len(names) : ~IsIdentifier(names[i]) \/ IsKeyword(names[i])
    \/ \E i \in 1..Len(names) : StartsWithUnderscore(names[i]) /\ ~ren
    \/ \E i \in 1..Len(names) : SeenBefore(names, i)

namedtuple(names, ren) ==
    LET fs == IF ren THEN Renamed(names) ELSE names
    IN  IF Rejected(fs, ren)
        THEN [ok |-> FALSE, fields |-> <<>>]
        ELSE [ok |-> TRUE,  fields |-> fs]

\* RowTuple._make(values): a tuple of the wrong length is a TypeError
make(values, fs) ==
    IF Len(values) = Len(fs)
    THEN [kind |-> "record", rec |-> values]
    ELSE [kind |-> "TypeError", rec |-> <<>>]

(***************************************************************************)
(* NamedTupleReader                                                        *)
(***************************************************************************)
NoResult(k) == [kind |-> k, rec |-> <<>>]

\* variants of the reconciliation used to test the properties below
ReconcileFromLf(r, lf, rv) ==
    LET lr == Len(r)
    IN  IF lr < lf THEN Wrap(r) \o Repeat(rv, lf - lr)
        ELSE IF lr > lf
             THEN Wrap(SliceTo(r, lf - 1)) \o <<List(SliceFrom(r, lf))>>
             ELSE Wrap(r)

ReconcileFirstExtra(r, lf, rv) ==
    LET lr == Len(r)
    IN  IF lr < lf THEN Wrap(r) \o Repeat(rv, lf - lr)
        ELSE IF lr > lf
             THEN Wrap(SliceTo(r, lf - 1)) \o <<List(SliceTo(SliceFrom(r, lf - 1), 1))>>
             ELSE Wrap(r)

ReconcilePadNone(r, lf, rv) ==
    LET lr == Len(r)
    IN  IF lr < lf THEN Wrap(r) \o Repeat(NoneVal, lf - lr)
        ELSE IF lr > lf
             THEN Wrap(SliceTo(r, lf - 1)) \o <<List(SliceFrom(r, lf - 1))>>
             ELSE Wrap(r)

\* lines 62-66: reconcile the raw row with the schema arity
Reconcile(r, lf, rv) ==
    LET lr == Len(r)
    IN  IF lr < lf THEN Wrap(r) \o Repeat(rv, lf - lr)
        ELSE IF lr > lf
             THEN Wrap(SliceTo(r, lf - 1)) \o <<List(SliceFrom(r, lf - 1))>>
             ELSE Wrap(r)

\* raw lines spanned by rows from+1 .. to of the source
RECURSIVE LinesBetween(_, _, _)
LinesBetween(src, from, to) ==
    IF to <= from THEN 0
    ELSE LinesBetween(src, from, to - 1) + PhysLines(src[to])

\* index of the first non-blank row after position p, or 0 when there is none
NextNonBlank(src, p) ==
    IF \E j \in (p + 1)..Len(src) : src[j] # <<>>
    THEN CHOOSE j \in (p + 1)..Len(src) :
            /\ src[j] # <<>>
            /\ \A k \in (p + 1)..(j - 1) : src[k] = <<>>
    ELSE 0

\* line 47: the record type is built with the reader's rename flag
RowTupleNoRename(names, ren) == namedtuple(names, FALSE)

RowTupleType(names, ren) == namedtuple(names, ren)

\* line 61: self.line_num = self.reader.line_num
CountRecords(old, readerLines) == old + 1

SyncLineNum(old, readerLines) == readerLines

\* NamedTupleReader.__init__
Construct ==
    /\ phase = "new"
    /\ LET header == ~argnames.given
           empty  == header /\ source = <<>>
           names  == IF header THEN (IF empty THEN <<>> ELSE source[1])
                     ELSE argnames.names
           nt     == RowTupleType(names, rename)
           read   == IF header /\ ~empty THEN 1 ELSE 0
           lines  == LinesBetween(source, 0, read)
       IN  /\ pos' = read
           /\ reader_line_num' = lines
           /\ IF empty
              THEN /\ phase' = "failed"
                   /\ result' = NoResult("StopIteration")
                   /\ UNCHANGED <<fields, fields0, line_num>>
              ELSE IF ~nt.ok
              THEN /\ phase' = "failed"
                   /\ result' = NoResult("ValueError")
                   /\ UNCHANGED <<fields, fields0, line_num>>
              ELSE /\ phase' = "ready"
                   /\ result' = NoResult("constructed")
                   /\ fields' = nt.fields
                   /\ fields0' = nt.fields
                   /\ line_num' = lines
    /\ UNCHANGED <<source, argnames, restval, rename, row, out>>
    /\ UNCHANGED tempVars

\* NamedTupleReader.__next__
Next_ ==
    /\ phase = "ready"
    /\ LET j == NextNonBlank(source, pos)
       IN  IF j = 0
           THEN /\ pos' = Len(source)
                /\ reader_line_num' =
                      reader_line_num + LinesBetween(source, pos, Len(source))
                /\ row' = <<>>
                /\ result' = NoResult("StopIteration")
                /\ UNCHANGED <<line_num, out>>
           ELSE LET r == make(Reconcile(source[j], Len(fields), restval), fields)
                IN  /\ pos' = j
                    /\ reader_line_num' =
                          reader_line_num + LinesBetween(source, pos, j)
                    /\ line_num' = SyncLineNum(line_num, reader_line_num')
                    /\ row' = source[j]
                    /\ result' = r
                    /\ out' = IF r.kind = "record" THEN Append(out, r.rec) ELSE out
    /\ UNCHANGED <<source, argnames, restval, rename, phase, fields, fields0>>
    /\ UNCHANGED tempVars

(***************************************************************************)
(* Inputs of the reader                                                    *)
(***************************************************************************)
DataRow(n)   == [i \in 1..n |-> Decimal(10 + i)]
HeadRow(n)   == [i \in 1..n |-> <<"c", "o", "l">> \o Decimal(i)]
QuotedRow(n) == [i \in 1..n |-> IF i = 1 THEN <<"a", "\n", "b">> ELSE Decimal(10 + i)]

RowSet ==
    {<<>>} \cup {DataRow(n) : n \in 1..MaxFields}
           \cup {HeadRow(n) : n \in 1..MaxFields}
           \cup {QuotedRow(n) : n \in 1..MaxFields}

SeqsUpTo(S, n) == UNION {[1..k -> S] : k \in 0..n}

Given(names) == [given |-> TRUE, names |-> names]
NotGiven     == [given |-> FALSE, names |-> <<>>]

RestVals == {NoneVal, Str(<<"x">>)}

TempIdle ==
    /\ cwd = <<"work">>
    /\ dirs = {<<"work">>, <<"tmp">>}
    /\ files = {}
    /\ stack = <<>>
    /\ deco = <<>>
    /\ made = 0
    /\ calls = 0
    /\ done = <<>>

ReaderNew ==
    /\ pos = 0
    /\ reader_line_num = 0
    /\ phase = "new"
    /\ fields = <<>>
    /\ fields0 = <<>>
    /\ line_num = 0
    /\ row = <<>>
    /\ result = NoResult("none")
    /\ out = <<>>

InitReader ==
    /\ source \in SeqsUpTo(RowSet, MaxRows)
    /\ argnames \in {NotGiven} \cup {Given(HeadRow(n)) : n \in 0..MaxArity}
    /\ restval \in RestVals
    /\ rename \in BOOLEAN
    /\ ReaderNew
    /\ TempIdle

NextReader == Construct \/ Next_

SpecReader == InitReader /\ [][NextReader]_vars

(***************************************************************************)
(* Inputs of the schema construction                                       *)
(***************************************************************************)
MaxNames == 3       \* longest field-name list tried for the schema

NameSet == {<<"a">>, <<"b">>, <<"1", "2">>, <<"_", "1">>, <<"i", "f">>, <<>>}

InitSchema ==
    /\ \E names \in SeqsUpTo(NameSet, MaxNames) :
          \/ argnames = Given(names) /\ source = <<>>
          \/ argnames = NotGiven /\ source = <<names>>
    /\ restval = NoneVal
    /\ rename \in BOOLEAN
    /\ ReaderNew
    /\ TempIdle

NextSchema == Construct

SpecSchema == InitSchema /\ [][NextSchema]_vars

(***************************************************************************)
(* Properties of NamedTupleReader                                          *)
(***************************************************************************)
lf == Len(fields)
lr == Len(row)
Returned == phase = "ready" /\ result.kind = "record"

\* the raw strings held by a record, in slot order
RECURSIVE Flat(_)
Flat(rec) == IF rec = <<>> THEN <<>> ELSE Head(rec).v \o Flat(Tail(rec))

\* C1: with lf >= 1, a row of lr > lf raw fields gives a record of exactly
\* lf fields; fields 1..lf-1 are the raw fields at the same place and the
\* last field is the list of raw fields lf..lr (1-based) in input order, so
\* every raw field occurs exactly once.
C1_OverflowIntoLastSlot ==
    (phase = "ready" /\ lf >= 1 /\ lr > lf) =>
        /\ result.kind = "record"
        /\ Len(result.rec) = lf
        /\ \A i \in 1..(lf - 1) : result.rec[i] = Str(row[i])
        /\ result.rec[lf] = List(SubSeq(row, lf, lr))
        /\ Flat(result.rec) = row

C1_Witness ==
    /\ Returned /\ lf = 2 /\ lr = 3
    /\ result.rec[2] = List(<<row[2], row[3]>>)

\* C2 as stated: for lr > lf the last field of the returned record is the
\* list of raw fields with 0-based indices lf..lr-1 (1-based lf+1..lr), and
\* the preceding fields map positionally.
C2_Original ==
    (Returned /\ lr > lf) =>
        /\ result.rec[lf] = List(SubSeq(row, lf + 1, lr))
        /\ \A i \in 1..(lf - 1) : result.rec[i] = Str(row[i])

\* C2 amended: for lr > lf the last field of the returned record is the list
\* of raw fields with 0-based indices lf-1..lr-1 (1-based lf..lr), and the
\* preceding fields map positionally.
C2_Amended ==
    (Returned /\ lr > lf) =>
        /\ result.rec[Len(result.rec)] = List(SubSeq(row, lf, lr))
        /\ \A i \in 1..(lf - 1) : result.rec[i] = Str(row[i])

C2_Witness ==
    /\ Returned /\ lf = 1 /\ lr = 3
    /\ result.rec = <<List(row)>>

\* C3: a non-blank row of lr <= lf raw fields gives a record whose field i
\* is raw field i for i <= lr and the configured restval for lr < i <= lf;
\* with lr = lf no placeholder appears.
C3_PadWithRestval ==
    (phase = "ready" /\ row # <<>> /\ lr <= lf) =>
        /\ result.kind = "record"
        /\ Len(result.rec) = lf
        /\ \A i \in 1..lr : result.rec[i] = Str(row[i])
        /\ \A i \in (lr + 1)..lf : result.rec[i] = restval
        /\ (lr = lf => result.rec = Wrap(row))

C3_Witness ==
    /\ Returned /\ lr = 1 /\ lf = 3 /\ restval # NoneVal
    /\ result.rec[2] = restval /\ result.rec[3] = restval

\* rows of data (after a header taken by __init__) consumed so far
DataStart == IF argnames.given THEN 0 ELSE 1
NonBlankRead == {i \in (DataStart + 1)..pos : source[i] # <<>>}

\* C4: iteration yields exactly one record per non-blank data row consumed,
\* never an empty record, and ends only by exhaustion of the source, with no
\* other error.
C4_OneRecordPerNonBlankLine ==
    phase = "ready" =>
        /\ result.kind \in {"constructed", "record", "StopIteration"}
        /\ Len(out) = Cardinality(NonBlankRead)
        /\ \A k \in 1..Len(out) : out[k] # <<>>
        /\ (result.kind = "StopIteration" => pos = Len(source))

\* raw lines the csv.reader has consumed from the source
LinesConsumed == LinesBetween(source, 0, pos)

LineNumTracksSource ==
    (phase = "ready" /\ result.kind \in {"constructed", "record"}) =>
        line_num = LinesConsumed

\* C5 as stated: after construction and after every returned record
\* line_num is the number of raw lines consumed (blank lines included); it is
\* 1 after header-derived construction and 0 with explicit fieldnames; and
\* it never decreases.
C5_Original ==
    /\ [](LineNumTracksSource
          /\ ((phase = "ready" /\ result.kind = "constructed") =>
                 line_num = (IF argnames.given THEN 0 ELSE 1)))
    /\ [][line_num' >= line_num]_vars

\* C5 amended: as C5, except that after header-derived construction
\* line_num is the number of raw lines the header row spans (1 unless a
\* quoted header field contains a line break).
C5_Amended ==
    /\ [](LineNumTracksSource
          /\ ((phase = "ready" /\ result.kind = "constructed") =>
                 line_num = (IF argnames.given THEN 0 ELSE PhysLines(source[1]))))
    /\ [][line_num' >= line_num]_vars

C5_Witness ==
    /\ Returned /\ ~argnames.given
    /\ \E i \in 2..(pos - 1) : source[i] = <<>>
    /\ line_num = LinesConsumed /\ line_num > Len(out) + 2

\* the field-name list the schema is built from
TheNames == IF argnames.given THEN argnames.names ELSE source[1]
Built == phase \in {"ready", "failed"} /\ (argnames.given \/ source # <<>>)
Distinct(ns) == \A i, j \in 1..Len(ns) : ns[i] = ns[j] => i = j
DuplicatesAnother(ns, i) == \E j \in 1..Len(ns) : j # i /\ ns[j] = ns[i]
Usable(n) == IsIdentifier(n) /\ ~IsKeyword(n)
Unacceptable(n) == ~IsIdentifier(n) \/ IsKeyword(n) \/ StartsWithUnderscore(n)

\* C6 as stated: with rename off construction fails exactly when some name
\* is not a valid identifier or duplicates another, and otherwise keeps the
\* names; with rename on it always succeeds and name i becomes '_i' exactly
\* when it is not a valid identifier or duplicates an earlier name, so the
\* schema has the same arity and only valid, distinct names.
C6_Original ==
    Built =>
        /\ ~rename =>
              /\ phase = "failed" <=>
                    \E i \in 1..Len(TheNames) :
                        ~IsIdentifier(TheNames[i]) \/ DuplicatesAnother(TheNames, i)
              /\ phase = "ready" => fields = TheNames
        /\ rename =>
              /\ phase = "ready"
              /\ Len(fields) = Len(TheNames)
              /\ \A i \in 1..Len(TheNames) :
                    fields[i] = IF ~IsIdentifier(TheNames[i]) \/ SeenBefore(TheNames, i)
                                THEN Placeholder(i - 1) ELSE TheNames[i]
              /\ Distinct(fields)
              /\ \A i \in 1..Len(fields) : Usable(fields[i])

\* C6 amended: as C6, where a name also counts as invalid when it is a
\* keyword or starts with an underscore.
C6_Amended ==
    Built =>
        /\ ~rename =>
              /\ phase = "failed" <=>
                    \E i \in 1..Len(TheNames) :
                        Unacceptable(TheNames[i]) \/ DuplicatesAnother(TheNames, i)
              /\ phase = "ready" => fields = TheNames
        /\ rename =>
              /\ phase = "ready"
              /\ Len(fields) = Len(TheNames)
              /\ \A i \in 1..Len(TheNames) :
                    fields[i] = IF Unacceptable(TheNames[i]) \/ SeenBefore(TheNames, i)
                                THEN Placeholder(i - 1) ELSE TheNames[i]
              /\ Distinct(fields)
              /\ \A i \in 1..Len(fields) : Usable(fields[i])

C6_Witness ==
    /\ phase = "ready" /\ rename /\ Len(fields) = 3
    /\ TheNames = <<<<"a">>, <<"1", "2">>, <<"a">>>>
    /\ fields = <<<<"a">>, <<"_", "1">>, <<"_", "2">>>>

\* C10: every __next__ call either returns a record of exactly lf fields or
\* signals exhaustion, never another failure, for every arity lf >= 0, and
\* fieldnames stays what it was after construction.
C10_FixedArityNoOtherFailure ==
    phase = "ready" =>
        /\ result.kind \in {"constructed", "record", "StopIteration"}
        /\ (result.kind = "record" => Len(result.rec) = Len(fields0))
        /\ fields = fields0

(***************************************************************************)
(* Temporary directory management                                          *)
(*                                                                         *)
(* A path is a sequence of names from the filesystem root.                 *)
(***************************************************************************)
MaxEntries == 3     \* most scopes/calls entered in one behaviour
MaxDepth   == 2     \* deepest nesting of scopes/calls

IsPrefix(p, q) == Len(p) <= Len(q) /\ SubSeq(q, 1, Len(p)) = p
Below(p, q)    == IsPrefix(p, q) /\ p # q

\* shutil.rmtree(p) / TemporaryDirectory cleanup: p and everything under it goes
rmtree(paths, p) == {q \in paths : ~IsPrefix(p, q)}

\* tempfile.TemporaryDirectory(): a new directory under the system temp
\* root whose name tempfile has not handed out before
TempRoot == <<"tmp">>
mkdtemp(n) == TempRoot \o <<"tmp" \o ToString(n)>>

\* Path(f'DEBUG_{func.__qualname__}'), resolved against the cwd
DebugDir(at, qualname) == at \o <<"DEBUG_" \o qualname>>

\* a decorator argument; id names the callable when it is one
Arg(kind, id) == [callable |-> kind = "callable", kind |-> kind, id |-> id]
FuncArg(name) == Arg("callable", name)

\* tempdir(*args) followed by the application Python's decorator syntax makes:
\* the wrapper that ends up running, as its wrapped callable and its mode.
\* With one callable argument the argument itself is wrapped in default mode
\* (for "@tempdir" that is the decorated function); otherwise _tempdir is
\* returned and wraps the decorated function in debug mode.
tempdir(args, decorated) ==
    IF Len(args) = 1 /\ args[1].callable
    THEN [func |-> args[1].id, debug |-> FALSE]
    ELSE [func |-> decorated, debug |-> TRUE]

\* how a name was decorated: bare "@tempdir" or "@tempdir(args...)"
Bare         == [bare |-> TRUE, args |-> <<>>]
WithArgs(as) == [bare |-> FALSE, args |-> as]

\* the arguments tempdir receives for a usage on the function called name
PassedArgs(usage, name) == IF usage.bare THEN <<FuncArg(name)>> ELSE usage.args

Decorate(usage, name) ==
    [usage |-> usage, wrapper |-> tempdir(PassedArgs(usage, name), name)]

\* what the wrapped callable returns for an argument
FuncResult(func, a) == <<func, a>>

Top == stack[Len(stack)]
InBody == IF stack = <<>> THEN TRUE ELSE Top.phase = "body"
CanEnter == InBody /\ calls < MaxEntries /\ Len(stack) < MaxDepth

\* clean: the directory held nothing of an earlier use when the body began
\* (a workspace did not exist before; a debug directory was empty)
Frame(kind, name, w, home, temp, a, clean) ==
    [kind |-> kind, name |-> name, debug |-> w.debug, func |-> w.func,
     home |-> home, temp |-> temp, phase |-> "body", raised |-> FALSE,
     arg |-> a, given |-> a, clean |-> clean, wrote |-> FALSE]

Finished(f, raised) ==
    [kind |-> f.kind, name |-> f.name, debug |-> f.debug, func |-> f.func,
     home |-> f.home, temp |-> f.temp, raised |-> raised, given |-> f.given,
     clean |-> f.clean, wrote |-> f.wrote,
     ret |-> IF raised THEN <<>> ELSE FuncResult(f.func, f.arg),
     cwdAfter |-> cwd', existsAfter |-> f.temp \in dirs']

Pop == SubSeq(stack, 1, Len(stack) - 1)

\* entry of temp_workspace (lines 91-95), for a scope or a default-mode call
EnterWorkspace(kind, name, w, a) ==
    LET home == cwd
        temp == mkdtemp(made + 1)
    IN  /\ made' = made + 1
        /\ dirs' = dirs \cup {temp}
        /\ cwd' = temp
        /\ stack' = Append(stack, Frame(kind, name, w, home, temp, a,
                                        temp \notin dirs))
        /\ UNCHANGED files

\* variant of the debug entry that keeps an existing directory
EnterDebugKeep(name, w, a) ==
    LET home == cwd
        temp == DebugDir(cwd, w.func)
    IN  /\ dirs' = dirs \cup {temp}
        /\ files' = files
        /\ cwd' = temp
        /\ stack' = Append(stack, Frame("call", name, w, home, temp, a,
                             \A q \in dirs' \cup files' : ~Below(temp, q)))
        /\ UNCHANGED made

\* entry of a debug-mode call (lines 132-138)
EnterDebug(name, w, a) ==
    LET home == cwd
        temp == DebugDir(cwd, w.func)
    IN  /\ dirs' = rmtree(dirs, temp) \cup {temp}
        /\ files' = rmtree(files, temp)
        /\ cwd' = temp
        /\ stack' = Append(stack, Frame("call", name, w, home, temp, a,
                             \A q \in dirs' \cup files' : ~Below(temp, q)))
        /\ UNCHANGED made

\* with temp_workspace() as temp: ...
ScopeEnter ==
    /\ CanEnter
    /\ EnterWorkspace("scope", "", [func |-> "", debug |-> FALSE], "")
    /\ calls' = calls + 1
    /\ UNCHANGED <<deco, done>>
    /\ UNCHANGED readerVars

\* a call of the wrapper that decorating name produced (lines 129-145)
Call(name, a) ==
    /\ CanEnter
    /\ LET w == deco[name].wrapper
       IN  IF w.debug THEN EnterDebug(name, w, a)
           ELSE EnterWorkspace("call", name, w, a)
    /\ calls' = calls + 1
    /\ UNCHANGED <<deco, done>>
    /\ UNCHANGED readerVars

\* the body of the innermost scope/call writes a file into the cwd
BodyWrite ==
    /\ stack # <<>> /\ Top.phase = "body"
    /\ cwd \o <<"canary.txt">> \notin files
    /\ files' = files \cup {cwd \o <<"canary.txt">>}
    /\ stack' = [stack EXCEPT ![Len(stack)].wrote = TRUE]
    /\ UNCHANGED <<cwd, dirs, deco, made, calls, done>>
    /\ UNCHANGED readerVars

\* variant of the exit that restores the cwd only on a normal return
CwdOnReturnOnly(home, raised) == IF raised THEN cwd ELSE home

\* the finally clauses (lines 96-97, 140-141): the cwd after the body ends
CwdAfterBody(home, raised) == home

\* the body of the innermost scope/call ends, by return or by an exception
Exit(raised) ==
    /\ stack # <<>> /\ Top.phase = "body"
    /\ cwd' = CwdAfterBody(Top.home, raised)
    /\ UNCHANGED <<dirs, files, deco, made, calls>>
    /\ IF Top.debug
       THEN /\ stack' = Pop
            /\ done' = Append(done, Finished(Top, raised))
       ELSE /\ stack' = [stack EXCEPT ![Len(stack)].phase = "restored",
                                      ![Len(stack)].raised = raised]
            /\ UNCHANGED done
    /\ UNCHANGED readerVars

\* TemporaryDirectory.__exit__ (line 92): the workspace is deleted
Cleanup ==
    /\ stack # <<>> /\ Top.phase = "restored"
    /\ UNCHANGED <<cwd, deco, made, calls>>
    /\ dirs' = rmtree(dirs, Top.temp)
    /\ files' = rmtree(files, Top.temp)
    /\ stack' = Pop
    /\ done' = Append(done, Finished(Top, Top.raised))
    /\ UNCHANGED readerVars

(***************************************************************************)
(* Inputs of the temporary directory management                            *)
(***************************************************************************)
ArgVals == {Arg("str", "debug"), Arg("num", "1"), Arg("none", "None"),
            Arg("callable", "h")}
Usages  == {Bare} \cup {WithArgs(as) : as \in SeqsUpTo(ArgVals, 1)}
CallArgs == {"p"}

ReaderIdle ==
    /\ source = <<>>
    /\ argnames = NotGiven
    /\ restval = NoneVal
    /\ rename = FALSE
    /\ ReaderNew

InitTemp ==
    /\ cwd = <<"work">>
    /\ dirs = {<<"work">>, TempRoot}
    /\ files = {}
    /\ stack = <<>>
    /\ \E uf \in Usages :
          deco = [n \in {"f", "g"} |->
                    IF n = "f" THEN Decorate(uf, n) ELSE Decorate(Bare, n)]
    /\ made = 0
    /\ calls = 0
    /\ done = <<>>
    /\ ReaderIdle

NextTemp ==
    \/ ScopeEnter
    \/ \E n \in DOMAIN deco, a \in CallArgs : Call(n, a)
    \/ BodyWrite
    \/ \E raised \in BOOLEAN : Exit(raised)
    \/ Cleanup

SpecTemp == InitTemp /\ [][NextTemp]_vars

(***************************************************************************)
(* Properties of the temporary directory management                        *)
(***************************************************************************)
IsDefault(e) == ~e.debug
IsDebugCall(e) == e.debug /\ e.kind = "call"

\* C7: for every temp_workspace scope and default-mode call, nested or not,
\* returning or raising: in the body the cwd is a newly created directory
\* other than the cwd at entry; at exit the cwd is back at the entry cwd while
\* the directory still exists; afterwards the cwd is the entry cwd and the
\* directory is gone; two calls of the same default-mode function run in
\* different directories.
C7_WorkspaceIsolatedAndCleaned ==
    /\ \A k \in 1..Len(stack) :
          IsDefault(stack[k]) =>
             /\ stack[k].temp # stack[k].home
             /\ stack[k].clean
             /\ (k = Len(stack) /\ stack[k].phase = "body") =>
                   (cwd = stack[k].temp /\ cwd \in dirs)
             /\ stack[k].phase = "restored" =>
                   (cwd = stack[k].home /\ stack[k].temp \in dirs)
    /\ \A i \in 1..Len(done) :
          IsDefault(done[i]) =>
             /\ done[i].cwdAfter = done[i].home
             /\ ~done[i].existsAfter
             /\ done[i].temp \notin dirs
    /\ \A i, j \in 1..Len(done) :
          (i < j /\ IsDefault(done[i]) /\ IsDefault(done[j])
                 /\ done[i].kind = "call" /\ done[j].kind = "call"
                 /\ done[i].func = done[j].func) =>
             done[i].temp # done[j].temp

C7_Witness ==
    /\ stack = <<>> /\ cwd = <<"work">>
    /\ \E i, j \in 1..Len(done) :
          /\ i < j
          /\ IsDefault(done[i]) /\ done[i].kind = "call" /\ done[i].raised
          /\ IsDefault(done[j]) /\ done[j].kind = "call" /\ ~done[j].raised
          /\ done[i].func = done[j].func
          /\ done[i].temp # done[j].temp
          /\ done[i].wrote
    /\ \E i \in 1..Len(done) : done[i].kind = "scope" /\ done[i].home # <<"work">>

\* C8: every debug-mode call runs in the directory DEBUG_<qualname> directly
\* under the cwd at call time, so repeated calls from the same cwd use the
\* same directory; the directory is empty when the body starts; it still
\* exists when the call ends; and the cwd after the call is the cwd before
\* it, also when the function raises.
C8_DebugDirectoryReused ==
    /\ \A k \in 1..Len(stack) :
          IsDebugCall(stack[k]) =>
             /\ stack[k].temp = stack[k].home \o <<"DEBUG_" \o stack[k].func>>
             /\ stack[k].clean
             /\ k = Len(stack) => (cwd = stack[k].temp /\ cwd \in dirs)
    /\ \A i \in 1..Len(done) :
          IsDebugCall(done[i]) =>
             /\ done[i].temp = done[i].home \o <<"DEBUG_" \o done[i].func>>
             /\ done[i].clean
             /\ done[i].existsAfter
             /\ done[i].cwdAfter = done[i].home
    /\ \A i, j \in 1..Len(done) :
          (IsDebugCall(done[i]) /\ IsDebugCall(done[j])
              /\ done[i].func = done[j].func /\ done[i].home = done[j].home) =>
             done[i].temp = done[j].temp

C8_Witness ==
    \E i, j \in 1..Len(done) :
        /\ i < j
        /\ IsDebugCall(done[i]) /\ IsDebugCall(done[j])
        /\ done[i].func = done[j].func /\ done[i].home = done[j].home
        /\ done[i].wrote /\ done[j].clean /\ done[j].raised
        /\ done[j].temp \in dirs /\ cwd = done[j].home

\* C9: the mode depends only on whether a decorator argument is present: a
\* function decorated with bare @tempdir runs in default mode, a function
\* decorated with one argument of any value runs in debug mode, and in both
\* modes it gets the caller's arguments and its result is returned unchanged.
C9_ModeByArgumentPresence ==
    /\ \A k \in 1..Len(stack) :
          stack[k].kind = "call" =>
             LET u == deco[stack[k].name].usage
             IN  /\ stack[k].func = stack[k].name
                 /\ stack[k].arg = stack[k].given
                 /\ u.bare => ~stack[k].debug
                 /\ (~u.bare /\ Len(u.args) = 1) => stack[k].debug
    /\ \A i \in 1..Len(done) :
          (done[i].kind = "call" /\ ~done[i].raised) =>
             done[i].ret = FuncResult(done[i].name, done[i].given)

====
